---- MODULE Spec2Model ----
(***************************************************************************)
(* QuickSand Poker (src/src/main.py): the round engine of PokerGame.       *)
(*                                                                         *)
(* One round is modelled: start_new_round, the four calls of betting_round *)
(* made by play_round (one loop iteration of betting_round per step), and  *)
(* determine_winners.  In the round a card is known by its position in the *)
(* shuffled deck; the hand category seen by ai_decision and the scores at  *)
(* showdown are inputs.  Seats are the Python list indices 0..n-1;         *)
(* players[i+1] is seat i.                                                 *)
(*                                                                         *)
(* evaluate_hand and calculate_win_probability are pure functions and have *)
(* specifications of their own, SpecEval and SpecMC, at the end.           *)
(***************************************************************************)
EXTENDS Integers, Sequences, FiniteSets, TLC

\* ---------------------------------------------------------------- bounds
\* Player turns offered within one street before the model stops the street.
MaxTurns == 9
\* Raises applied within one round before the model offers no further raise.
MaxRaises == 1

\* ------------------------------------------------------ program constants
num_players == 4
small_blind == 5
big_blind == 10
StartChips == 1000
TotalChips == num_players * StartChips

None == -1

VARIABLES
    players,            \* PokerGame.players: Seq of Player records
    pot,                \* PokerGame.pot
    current_bet,        \* PokerGame.current_bet (table bet)
    dealer_idx,         \* PokerGame.dealer_idx
    current_player_idx, \* PokerGame.current_player_idx
    community_cards,    \* PokerGame.community_cards, as deck positions
    deck,               \* PokerGame.deck: cards dealt from its front so far
    pc,                 \* position in play_round
    street,             \* 0 pre-flop, 1 flop, 2 turn, 3 river
    player_idx,         \* betting_round local
    last_raiser,        \* betting_round local (None = -1)
    action,             \* betting_round local: the decision being processed
    amount_to_call,     \* betting_round local
    bet,                \* betting_round local: what place_bet returned
    turns,              \* player turns offered in the current street
    raises,             \* raises applied in the current round
    street_active,      \* non-folded players when the street began
    street_pot,         \* pot when the street began
    reprompted,         \* human_decision rejected the last input
    acted,              \* seats offered a turn since the street's last raise
    raiser,             \* seat of the street's last raise (None = -1)
    winners,            \* determine_winners local: seats, in list order
    scores,             \* determine_winners local: seat -> score
    cards,              \* evaluate_hand: its argument
    hand_score,         \* evaluate_hand: its result
    mc                  \* calculate_win_probability: its locals

\* the round engine's state
roundVars == <<players, pot, current_bet, dealer_idx, current_player_idx,
               community_cards, deck, pc, street, player_idx, last_raiser,
               action, amount_to_call, bet, turns, raises, street_active,
               street_pot, reprompted, acted, raiser, winners, scores>>
\* the state of the two pure functions
pureVars == <<cards, hand_score, mc>>

vars == <<roundVars, pureVars>>

\* ------------------------------------------------------------- helpers
Seats == 0 .. (Len(players) - 1)
P(i) == players[i + 1]
ActiveSeats == {i \in Seats : P(i).is_active}
NoAction == [verb |-> "none", amount |-> 0]

RECURSIVE SumChips(_)
SumChips(ps) == IF ps = <<>> THEN 0 ELSE Head(ps).chips + SumChips(Tail(ps))


\* Player.__init__
Player(chips, is_ai) ==
    [chips |-> chips, current_bet |-> 0, is_active |-> TRUE, is_ai |-> is_ai]

\* Player.clear_hand
clear_hand(p) == [p EXCEPT !.current_bet = 0, !.is_active = TRUE]

\* mutant: the amount is not capped at the stack
place_bet_amount_uncapped(p, amount) == amount

\* Player.place_bet: the amount actually paid (capped at the stack)
place_bet_amount(p, amount) == IF amount > p.chips THEN p.chips ELSE amount

\* Player.place_bet: the player afterwards
place_bet(p, amount) ==
    [p EXCEPT !.chips = @ - place_bet_amount(p, amount),
              !.current_bet = @ + place_bet_amount(p, amount)]

\* Player.fold
fold(p) == [p EXCEPT !.is_active = FALSE]

\* ------------------------------------------------------------------ Init
\* A session between two rounds: the human is seat 0 and still has chips
\* (play_game stops otherwise), every AI seat holds what earlier rounds left
\* it, and the stacks add up to the chips the game was created with.
AIStacks == {0, 3, StartChips}
\* The seats that folded in the round before: is_active stays False until
\* the next clear_hand.  Somebody was left to take the pot.
LastRoundFolds == {{}, {0}, {1, 3}, {0, 1, 2}}

Init ==
    /\ \E s1, s2, s3 \in AIStacks, folded \in LastRoundFolds :
          players = [k \in 1 .. num_players |->
                        [ << Player(TotalChips - s1 - s2 - s3, FALSE),
                             Player(s1, TRUE), Player(s2, TRUE),
                             Player(s3, TRUE) >>[k]
                          EXCEPT !.is_active = (k - 1) \notin folded]]
    /\ dealer_idx \in 0 .. (num_players - 1)
    /\ pot = 0
    /\ current_bet = 0
    /\ current_player_idx = 0
    /\ community_cards = <<>>
    /\ deck = 0
    /\ pc = "start"
    /\ street = 0
    /\ player_idx = 0
    /\ last_raiser = None
    /\ action = NoAction
    /\ amount_to_call = 0
    /\ bet = 0
    /\ turns = 0
    /\ raises = 0
    /\ street_active = 0
    /\ street_pot = 0
    /\ reprompted = FALSE
    /\ acted = {}
    /\ raiser = None
    /\ winners = <<>>
    /\ scores = <<>>
    /\ cards = <<>>
    /\ hand_score = <<>>
    /\ mc = <<>>

\* ------------------------------------------------------- start_new_round
\* start_new_round: the seats of the blinds and of the first player to act
small_blind_seat(d, n) == (d + 1) % n
big_blind_seat(d, n) == (d + 2) % n
\* mutant: the big blind itself is asked first
first_to_act_big_blind(bb_idx, n) == bb_idx % n
first_to_act(bb_idx, n) == (bb_idx + 1) % n

\* start_new_round: "Reset players' hands" and "Remove players with no chips"
remaining_players(ps) ==
    SelectSeq([k \in 1 .. Len(ps) |-> clear_hand(ps[k])], LAMBDA p : p.chips > 0)

\* PokerGame.start_new_round: reset, drop broke players, rotate the dealer,
\* post the blinds, set the first player to act.
start_new_round ==
    /\ pc = "start"
    /\ LET remaining == remaining_players(players)
           n == Len(remaining)
           d == (dealer_idx + 1) % n
           sb_idx == small_blind_seat(d, n)
           bb_idx == big_blind_seat(d, n)
           sb == place_bet_amount(remaining[sb_idx + 1], small_blind)
           after_sb == [remaining EXCEPT ![sb_idx + 1] = place_bet(@, small_blind)]
           bb == place_bet_amount(after_sb[bb_idx + 1], big_blind)
           after_bb == [after_sb EXCEPT ![bb_idx + 1] = place_bet(@, big_blind)]
       IN  IF n = 1
           THEN /\ players' = remaining
                /\ pot' = 0
                /\ current_bet' = 0
                /\ pc' = "gameover"
                /\ deck' = 0
                /\ UNCHANGED <<dealer_idx, current_player_idx>>
           ELSE /\ players' = after_bb
                /\ dealer_idx' = d
                /\ pot' = 0 + sb + bb
                /\ current_bet' = big_blind
                /\ current_player_idx' = first_to_act(bb_idx, n)
                /\ deck' = 2 * n
                /\ pc' = "betting"
    /\ community_cards' = <<>>
    /\ street' = 0
    /\ UNCHANGED <<player_idx, last_raiser, action, amount_to_call, bet, turns,
                   raises, street_active, street_pot, reprompted, acted,
                   raiser, winners, scores>>
    /\ UNCHANGED pureVars

\* ---------------------------------------------------------- betting_round
\* betting_round, entry: the active-player count and the loop's locals.
betting_round_begin ==
    /\ pc = "betting"
    /\ IF Cardinality(ActiveSeats) <= 1
       THEN /\ pc' = "settle"
            /\ UNCHANGED <<player_idx, last_raiser>>
       ELSE /\ pc' = "loop"
            /\ player_idx' = current_player_idx
            /\ last_raiser' = None
    /\ action' = NoAction
    /\ amount_to_call' = 0
    /\ bet' = 0
    /\ turns' = 0
    /\ street_active' = Cardinality(ActiveSeats)
    /\ street_pot' = pot
    /\ acted' = {}
    /\ raiser' = None
    /\ UNCHANGED <<players, pot, current_bet, dealer_idx, current_player_idx,
                   community_cards, deck, street, raises, reprompted, winners,
                   scores>>
    /\ UNCHANGED pureVars

\* betting_round returns: its locals, and what was recorded about the
\* street, go out of scope
LocalsDropped ==
    /\ player_idx' = 0
    /\ last_raiser' = None
    /\ action' = NoAction
    /\ amount_to_call' = 0
    /\ bet' = 0
    /\ turns' = 0
    /\ street_active' = 0
    /\ street_pot' = 0
    /\ acted' = {}
    /\ raiser' = None

\* betting_round, loop: "Skip inactive players".
skip_inactive ==
    /\ pc = "loop"
    /\ ~P(player_idx).is_active
    /\ player_idx' = (player_idx + 1) % Len(players)
    /\ UNCHANGED <<players, pot, current_bet, dealer_idx, current_player_idx,
                   community_cards, deck, pc, street, last_raiser, action,
                   amount_to_call, bet, turns, raises, street_active,
                   street_pot, reprompted, acted, raiser, winners, scores>>
    /\ UNCHANGED pureVars

\* betting_round, loop: "Check if betting round is complete", and the
\* return to play_round, which deals the next street or goes to showdown.
betting_complete ==
    /\ pc = "loop"
    /\ P(player_idx).is_active
    /\ last_raiser = player_idx
    /\ current_player_idx' = (dealer_idx + 1) % Len(players)
    /\ pc' = IF street = 3 THEN "settle" ELSE "deal"
    /\ LocalsDropped
    /\ UNCHANGED <<players, pot, current_bet, dealer_idx, community_cards,
                   deck, street, raises, reprompted, winners, scores>>
    /\ UNCHANGED pureVars

\* mutant: the fold-out test never succeeds
only_one_remains_never(ps) ==
    Cardinality({k \in 1 .. Len(ps) : ps[k].is_active}) = 0

\* betting_round, after a fold: "Check if only one player remains"
only_one_remains(ps) ==
    Cardinality({k \in 1 .. Len(ps) : ps[k].is_active}) = 1

\* mutant: a raise leaves the marker where it was
last_raiser_not_updated(i, previous) == previous

\* betting_round, a raise: "Update the last raiser"
last_raiser_after_raise(i, previous) == i

\* betting_round, loop: a player is offered a turn and the action `act` that
\* the decision source returned is processed.
process_action(act) ==
    LET i == player_idx
        current_player == P(i)
        atc == current_bet - current_player.current_bet
        raise_amount == atc + act.amount
        folded == [players EXCEPT ![i + 1] = fold(@)]
        fold_out == act.verb = "fold" /\ only_one_remains(folded)
    IN  /\ pc = "loop"
        /\ current_player.is_active
        /\ last_raiser # i
        /\ turns < MaxTurns
        /\ act.verb = "raise" => raises < MaxRaises
        /\ current_player_idx' = i
        /\ CASE fold_out ->
                  /\ players' = folded
                  /\ pc' = "settle"
                  /\ LocalsDropped
                  /\ UNCHANGED <<pot, current_bet, raises>>
             [] act.verb = "fold" /\ ~fold_out ->
                  /\ players' = folded
                  /\ bet' = 0
                  /\ UNCHANGED <<pot, current_bet, raises>>
                  /\ last_raiser' = IF last_raiser = None THEN i ELSE last_raiser
             [] act.verb = "call" ->
                  /\ players' = [players EXCEPT ![i + 1] = place_bet(@, atc)]
                  /\ bet' = place_bet_amount(current_player, atc)
                  /\ pot' = pot + place_bet_amount(current_player, atc)
                  /\ UNCHANGED <<current_bet, raises>>
                  /\ last_raiser' = IF last_raiser = None THEN i ELSE last_raiser
             [] act.verb = "check" ->
                  /\ bet' = 0
                  /\ UNCHANGED <<players, pot, current_bet, raises>>
                  /\ last_raiser' = IF last_raiser = None THEN i ELSE last_raiser
             [] act.verb = "raise" ->
                  /\ players' = [players EXCEPT ![i + 1] = place_bet(@, raise_amount)]
                  /\ bet' = place_bet_amount(current_player, raise_amount)
                  /\ pot' = pot + place_bet_amount(current_player, raise_amount)
                  /\ current_bet' = place_bet(current_player, raise_amount).current_bet
                  /\ last_raiser' = last_raiser_after_raise(i, last_raiser)
                  /\ raises' = raises + 1
        /\ ~fold_out =>
              /\ turns' = turns + 1
              /\ acted' = IF act.verb = "raise" THEN {i} ELSE acted \cup {i}
              /\ raiser' = IF act.verb = "raise" THEN i ELSE raiser
              /\ UNCHANGED <<street_active, street_pot>>
              /\ amount_to_call' = atc
              /\ action' = act
              /\ pc' = "loop"
              /\ player_idx' = (i + 1) % Len(players)
        /\ reprompted' = FALSE
        /\ UNCHANGED <<dealer_idx, community_cards, deck, street, winners,
                       scores>>
        /\ UNCHANGED pureVars

\* ------------------------------------------------------------ decisions
Min(a, b) == IF a < b THEN a ELSE b
Max(a, b) == IF a > b THEN a ELSE b

Act(verb) == [verb |-> verb, amount |-> 0]
Raise(amount) == [verb |-> "raise", amount |-> amount]

\* Categories evaluate_hand can report to ai_decision once five or more cards
\* are known, one per tier of the policy (high card, pair, three of a kind).
\* With the two hole cards alone evaluate_hand returns category 0.
HandRanks == {0, 1, 3}
\* random.random(), in tenths
RandomDraws == {1, 5, 9}

\* PokerGame.ai_decision.  hand_rank is evaluate_hand(...)[0], high_cards is
\* "both hole cards have rank_value > 9", random is the random.random() draw.
ai_decision(player, atc, hand_rank, high_cards, random) ==
    IF Len(community_cards) = 0
    THEN IF hand_rank >= 1 \/ high_cards
         THEN IF atc = 0 THEN Raise(Min(player.chips, big_blind * 2))
              ELSE IF atc <= big_blind * 3 THEN Act("call")
              ELSE Act("fold")
         ELSE IF atc = 0 THEN Act("check")
              ELSE IF atc <= big_blind THEN Act("call")
              ELSE Act("fold")
    ELSE IF hand_rank >= 3
         THEN IF random < 7
              THEN Raise(Max(big_blind, Min(player.chips, pot \div 2)))
              ELSE IF atc > 0 THEN Act("call") ELSE Act("check")
         ELSE IF hand_rank >= 1
         THEN IF atc = 0
              THEN IF random < 3 THEN Raise(big_blind * 2) ELSE Act("check")
              ELSE IF atc <= big_blind * 3 THEN Act("call")
              ELSE Act("fold")
         ELSE IF atc = 0 THEN Act("check")
              ELSE IF atc <= big_blind
              THEN IF random < 3 THEN Act("call") ELSE Act("fold")
              ELSE Act("fold")

\* betting_round, loop: the turn of an AI seat.
ai_turn ==
    /\ pc = "loop"
    /\ P(player_idx).is_ai
    /\ \E hand_rank \in (IF Len(community_cards) = 0 THEN {0} ELSE HandRanks),
          high_cards \in BOOLEAN, random \in RandomDraws :
          process_action(ai_decision(P(player_idx),
                                     current_bet - P(player_idx).current_bet,
                                     hand_rank, high_cards, random))

\* What the human may type: a verb, and for "call N" / "raise N" the number.
HumanRaises == {0, 10, 5000}
HumanInputs(atc) ==
    {Act("fold"), Act("check")}
      \cup {[verb |-> "call", amount |-> a] : a \in {atc, atc + 1}}
      \cup {Raise(a) : a \in HumanRaises}

\* PokerGame.human_decision: the options offered
options(player, atc) ==
    IF atc = 0
    THEN {"check", "raise"}
    ELSE {"fold"}
           \cup (IF player.chips >= atc THEN {"call"} ELSE {})
           \cup (IF player.chips > atc THEN {"raise"} ELSE {})

\* PokerGame.human_decision: one pass of its input loop; NoAction when the
\* input is refused and the prompt repeats.
human_decision(decision, player, atc) ==
    IF decision.verb = "fold" /\ "fold" \in options(player, atc)
    THEN Act("fold")
    ELSE IF decision.verb = "check" /\ "check" \in options(player, atc)
    THEN Act("check")
    ELSE IF decision.verb = "call" /\ decision.amount = atc
            /\ "call" \in options(player, atc)
    THEN Act("call")
    ELSE IF decision.verb = "raise" /\ "raise" \in options(player, atc)
            /\ decision.amount > 0 /\ player.chips >= atc + decision.amount
    THEN Raise(decision.amount)
    ELSE NoAction

\* betting_round, loop: the turn of the human seat, input accepted.
human_turn ==
    /\ pc = "loop"
    /\ ~P(player_idx).is_ai
    /\ \E decision \in HumanInputs(current_bet - P(player_idx).current_bet) :
          LET act == human_decision(decision, P(player_idx),
                                    current_bet - P(player_idx).current_bet)
          IN  /\ act # NoAction
              /\ process_action(act)

\* human_decision refuses the input and asks the same player again.
human_reprompt ==
    /\ pc = "loop"
    /\ P(player_idx).is_active
    /\ last_raiser # player_idx
    /\ ~P(player_idx).is_ai
    /\ turns < MaxTurns
    /\ \E decision \in HumanInputs(current_bet - P(player_idx).current_bet) :
          human_decision(decision, P(player_idx),
                         current_bet - P(player_idx).current_bet) = NoAction
    /\ reprompted' = TRUE
    /\ UNCHANGED <<players, pot, current_bet, dealer_idx, current_player_idx,
                   community_cards, deck, pc, street, player_idx, last_raiser,
                   action, amount_to_call, bet, turns, raises, street_active,
                   street_pot, acted, raiser, winners, scores>>
    /\ UNCHANGED pureVars

\* ------------------------------------------------------------ play_round
\* Deck.deal: the next `count` cards from the front of the deck, of which
\* `dealt` are gone already
deal(dealt, count) == [k \in 1 .. count |-> dealt + k]

\* mutant: the flop is one card as well
street_cards_one_each(s) == 1

\* play_round: how many cards the street after `s` puts on the board
street_cards(s) == IF s = 0 THEN 3 ELSE 1

\* play_round: the flop (3 cards), the turn and the river (1 card each) are
\* put on the board and the next betting_round is called.
deal_street ==
    /\ pc = "deal"
    /\ community_cards' = community_cards \o deal(deck, street_cards(street))
    /\ deck' = deck + street_cards(street)
    /\ street' = street + 1
    /\ pc' = "betting"
    /\ UNCHANGED <<players, pot, current_bet, dealer_idx, current_player_idx,
                   player_idx, last_raiser, action, amount_to_call, bet, turns,
                   raises, street_active, street_pot, reprompted, acted,
                   raiser, winners, scores>>
    /\ UNCHANGED pureVars

\* ------------------------------------------------------ determine_winners
\* evaluate_hand scores (category, tie-breakers) a showdown can produce:
\* a high card, and two pairs of sixes that differ in the last kicker only.
HandScores == { <<0, <<12, 10, 8, 5, 3>> >>,
                <<1, <<4, 12, 9, 3>> >>,
                <<1, <<4, 12, 9, 5>> >> }

\* Python's list comparison: lexicographic, a proper prefix is smaller.
RECURSIVE ListLess(_, _)
ListLess(a, b) ==
    IF b = <<>> THEN FALSE
    ELSE IF a = <<>> THEN TRUE
    ELSE IF Head(a) # Head(b) THEN Head(a) < Head(b)
    ELSE ListLess(Tail(a), Tail(b))

\* Python's tuple comparison of two scores
ScoreLess(a, b) == a[1] < b[1] \/ (a[1] = b[1] /\ ListLess(a[2], b[2]))

\* list.sort(key=score, reverse=True): descending and stable, so entries
\* with equal scores keep the order they had in the list.
RECURSIVE SortInsert(_, _, _)
SortInsert(x, sorted, sc) ==
    IF sorted = <<>> THEN <<x>>
    ELSE IF ScoreLess(sc[Head(sorted)], sc[x]) THEN <<x>> \o sorted
    ELSE <<Head(sorted)>> \o SortInsert(x, Tail(sorted), sc)

RECURSIVE SortByScore(_, _)
SortByScore(list, sc) ==
    IF list = <<>> THEN <<>>
    ELSE SortInsert(list[Len(list)],
                    SortByScore(SubSeq(list, 1, Len(list) - 1), sc), sc)

\* mutant: folded players are taken to the showdown as well
RECURSIVE ActiveList_everyone(_)
ActiveList_everyone(i) ==
    IF i >= Len(players) THEN <<>> ELSE <<i>> \o ActiveList_everyone(i + 1)

\* [p for p in self.players if p.is_active], as seats in list order
RECURSIVE ActiveList(_)
ActiveList(i) ==
    IF i >= Len(players) THEN <<>>
    ELSE (IF P(i).is_active THEN <<i>> ELSE <<>>) \o ActiveList(i + 1)

\* mutant: a tie is decided on the category alone
RECURSIVE TopEqual_category_only(_, _)
TopEqual_category_only(sorted, sc) ==
    IF Len(sorted) <= 1 THEN sorted
    ELSE IF sc[sorted[2]][1] = sc[sorted[1]][1]
         THEN <<sorted[1]>> \o TopEqual_category_only(Tail(sorted), sc)
         ELSE <<sorted[1]>>

\* "Find winners": the leading entries of player_scores that equal the first
RECURSIVE TopEqual(_, _)
TopEqual(sorted, sc) ==
    IF Len(sorted) <= 1 THEN sorted
    ELSE IF sc[sorted[2]] = sc[sorted[1]]
         THEN <<sorted[1]>> \o TopEqual(Tail(sorted), sc)
         ELSE <<sorted[1]>>

SeqToSet(q) == {q[k] : k \in 1 .. Len(q)}

\* mutant: the remainder of the division is not handed out
payout_without_remainder(w, i) ==
    IF i \in SeqToSet(w) THEN pot \div Len(w) ELSE 0

\* "Split pot among winners": the chips each seat is given
payout(w, i) ==
    (IF i \in SeqToSet(w) THEN pot \div Len(w) ELSE 0)
      + (IF pot % Len(w) > 0 /\ i = w[1] THEN pot % Len(w) ELSE 0)

\* PokerGame.determine_winners
determine_winners ==
    /\ pc = "settle"
    /\ LET active_players == ActiveList(0)
       IN  IF Len(active_players) = 1
           THEN /\ winners' = active_players
                /\ scores' = <<>>
                /\ players' = [players EXCEPT
                                 ![active_players[1] + 1].chips = @ + pot]
           ELSE \E sc \in [SeqToSet(active_players) -> HandScores] :
                   LET player_scores == SortByScore(active_players, sc)
                       w == TopEqual(player_scores, sc)
                   IN  /\ winners' = w
                       /\ scores' = sc
                       /\ players' = [k \in 1 .. Len(players) |->
                                        [players[k] EXCEPT
                                           !.chips = @ + payout(w, k - 1)]]
    /\ pc' = "done"
    /\ UNCHANGED <<pot, current_bet, dealer_idx, current_player_idx,
                   community_cards, deck, street, player_idx, last_raiser,
                   action, amount_to_call, bet, turns, raises, street_active,
                   street_pot, reprompted, acted, raiser>>
    /\ UNCHANGED pureVars

\* ------------------------------------------------------------------ Spec
Next ==
    \/ start_new_round
    \/ betting_round_begin
    \/ skip_inactive
    \/ betting_complete
    \/ ai_turn
    \/ human_turn
    \/ human_reprompt
    \/ deal_street
    \/ determine_winners

Spec == Init /\ [][Next]_vars

\* ================================================================ claims
InStreet == pc = "loop"
\* betting_round returned True: the next street is dealt, or showdown
StreetCompleted ==
    pc = "deal" \/ (pc = "settle" /\ Cardinality(ActiveSeats) > 1)

\* C1: a street ends after at most 2 x (players not folded when the street
\* began) player turns, whatever legal actions the players choose.
C1_StreetWithinTwoPasses == InStreet => turns <= 2 * street_active

\* C2: when betting_round completes normally (more than one player left),
\* every non-folded player's current_bet equals the table current_bet.
C2_BetsMatchedOnCompletion ==
    StreetCompleted => \A i \in ActiveSeats : P(i).current_bet = current_bet

\* what determine_winners adds to seat i's stack in the step being taken
Increase(i) == players'[i + 1].chips - players[i + 1].chips
Settling == pc = "settle" /\ pc' = "done"

\* C3: determine_winners distributes exactly the pot: the chip increases add
\* up to the pot, every winner gets at least pot div W, and the remainder
\* pot mod W is added to exactly one winner.
C3_PotDistributedExactly ==
    [][ Settling /\ pot >= 0 =>
          LET W == Len(winners')
              won == SeqToSet(winners')
          IN  /\ W >= 1
              /\ SumChips(players') - SumChips(players) = pot
              /\ \A i \in Seats \ won : Increase(i) = 0
              /\ \A i \in won : Increase(i) >= pot \div W
              /\ pot % W > 0 =>
                   /\ Cardinality({i \in won :
                         Increase(i) = (pot \div W) + (pot % W)}) = 1
                   /\ Cardinality({i \in won : Increase(i) = pot \div W}) = W - 1
    ]_vars

\* C3 witness: a pot was split among several winners and left a remainder.
C3_Witness == pc = "done" /\ Len(winners) >= 2 /\ pot % Len(winners) > 0

\* seats after the dealer, counted clockwise: the small blind is 0, the
\* dealer itself is n - 1
AfterDealer(i) == (i - dealer_idx - 1) % Len(players)
\* the same count started at the dealer's own seat
FromDealer(i) == (i - dealer_idx) % Len(players)

\* C4: with several tied winners and a pot their number does not divide, the
\* remainder goes to the tied winner earliest in seat order counted from the
\* dealer (the count may start at the dealer or at the seat after it).
C4_RemainderToFirstFromDealer ==
    [][ Settling /\ Len(winners') >= 2 /\ pot % Len(winners') > 0 =>
          \A i \in SeqToSet(winners') :
             Increase(i) > pot \div Len(winners') =>
                \/ \A j \in SeqToSet(winners') : AfterDealer(i) <= AfterDealer(j)
                \/ \A j \in SeqToSet(winners') : FromDealer(i) <= FromDealer(j)
    ]_vars

\* C5: at a showdown of two or more players, the players whose stack grows
\* are exactly the non-folded players whose score no other non-folded
\* player's score exceeds and who tie with each other exactly.
C5_WinnersAreTopScores ==
    [][ Settling /\ Cardinality(ActiveSeats) >= 2 =>
          {i \in Seats : Increase(i) > 0}
            = {i \in ActiveSeats :
                 \A j \in ActiveSeats :
                    \/ scores'[j] = scores'[i]
                    \/ scores'[j][1] < scores'[i][1]
                    \/ /\ scores'[j][1] = scores'[i][1]
                       /\ ListLess(scores'[j][2], scores'[i][2])}
    ]_vars

\* C5 witness: a showdown among three players in which two share the top
\* score and the third holds the same category with a lower kicker.
C5_Witness ==
    /\ pc = "done"
    /\ Len(winners) = 2
    /\ \E i \in DOMAIN scores :
          /\ i \notin SeqToSet(winners)
          /\ scores[i][1] = scores[winners[1]][1]
          /\ scores[i] # scores[winners[1]]

\* all players of the round but one have folded (before start_new_round the
\* flags are those of the round before)
FoldedOut == pc # "start" /\ Len(players) >= 2 /\ Cardinality(ActiveSeats) = 1

\* C6: when a fold leaves one non-folded player the street ends at once: no
\* further turn, card or street follows, and the settlement that comes next
\* gives the whole pot to that player.
C6_FoldOutEndsRound ==
    [][ /\ (pc = "loop" /\ ~FoldedOut /\ FoldedOut') => pc' = "settle"
        /\ FoldedOut
             => /\ Settling
                /\ current_player_idx' = current_player_idx
                /\ community_cards' = community_cards
                /\ street' = street
                /\ \A i \in Seats :
                      Increase(i) = IF i \in ActiveSeats THEN pot ELSE 0
    ]_vars

\* C6 witness: a round settled after a fold-out before the river.
C6_Witness ==
    /\ pc = "done"
    /\ FoldedOut
    /\ winners = <<CHOOSE i \in ActiveSeats : TRUE>>
    /\ Len(community_cards) < 5
    /\ pot > 0

\* the stack the acting player held when the action was chosen
StackBefore == P(current_player_idx).chips + bet

\* C7: betting_round never applies an action that is invalid for the acting
\* player: no raise of a non-positive amount or beyond the stack, no call
\* for more than the stack, no check while chips are owed.
C7_InvalidActionNeverApplied ==
    (InStreet /\ action.verb # "none") =>
        /\ action.verb = "raise" =>
              action.amount > 0 /\ amount_to_call + action.amount <= StackBefore
        /\ action.verb = "call" => amount_to_call <= StackBefore
        /\ action.verb = "check" => amount_to_call = 0

\* C8: at every decision point the acting player's amount to call is >= 0.
C8_AmountToCallNonNegative == InStreet => amount_to_call >= 0

\* C9: from the blinds to settlement the pot is non-negative and no step of
\* the round makes it smaller.
C9_PotNeverDecreases == [][ pot' >= pot /\ pot' >= 0 ]_vars

\* C10: after start_new_round with n >= 2 players, dealer d, and both blind
\* posters able to pay: seat d+1 has paid the small blind and seat d+2 the
\* big blind, once each, nobody else has paid, pot = small + big blind, the
\* table bet is the big blind and seat d+3 acts first (all seats mod n).
C10_BlindsPosted ==
    [][ (pc = "start" /\ pc' = "betting") =>
          LET before == remaining_players(players)
              n == Len(before)
              d == dealer_idx'
              sb == (d + 1) % n
              bb == (d + 2) % n
              paid(i) == before[i + 1].chips - players'[i + 1].chips
          IN  (before[sb + 1].chips >= small_blind
                 /\ before[bb + 1].chips >= big_blind)
              => /\ n >= 2 /\ Len(players') = n
                 /\ paid(sb) = small_blind /\ players'[sb + 1].current_bet = small_blind
                 /\ paid(bb) = big_blind /\ players'[bb + 1].current_bet = big_blind
                 /\ \A i \in (0 .. n - 1) \ {sb, bb} :
                       paid(i) = 0 /\ players'[i + 1].current_bet = 0
                 /\ pot' = small_blind + big_blind
                 /\ current_bet' = big_blind
                 /\ current_player_idx' = (d + 3) % n
    ]_vars

\* C10 witness: the example of the specification (dealer at seat 0, four
\* players, blinds 5/10) right after start_new_round.
C10_Witness ==
    /\ pc = "betting" /\ street = 0
    /\ Len(players) = 4 /\ dealer_idx = 0
    /\ P(1).current_bet = 5 /\ P(2).current_bet = 10
    /\ pot = 15 /\ current_bet = 10 /\ current_player_idx = 3

\* ============================================================ evaluate_hand
\* A Card is its index in the unshuffled deck of Deck.__init__
\* ("for suit in SUITS for rank in RANKS"): 13 * suit + rank_value.
Card(rank_value, suit) == 13 * suit + rank_value
rank_value(card) == card % 13
suit(card) == card \div 13

\* RANKS.index of the court cards and of the low cards named below
Two == 0
Three == 1
Four == 2
Five == 3
Six == 4
Ten == 8
Jack == 9
Queen == 10
King == 11
Ace == 12

\* sorted(..., reverse=True) of a list of numbers
RECURSIVE InsertDesc(_, _)
InsertDesc(x, sorted) ==
    IF sorted = <<>> THEN <<x>>
    ELSE IF Head(sorted) < x THEN <<x>> \o sorted
    ELSE <<Head(sorted)>> \o InsertDesc(x, Tail(sorted))

RECURSIVE SortedDesc(_)
SortedDesc(list) ==
    IF list = <<>> THEN <<>>
    ELSE InsertDesc(list[Len(list)], SortedDesc(SubSeq(list, 1, Len(list) - 1)))

\* Counter(ranks)[r]
rank_count(ranks, r) == Cardinality({k \in 1 .. Len(ranks) : ranks[k] = r})

\* [r for r, count in rank_count.items() if count == c][0]: a Counter lists
\* its keys in the order of their first occurrence
first_with_count(ranks, c) ==
    ranks[CHOOSE k \in 1 .. Len(ranks) :
            /\ rank_count(ranks, ranks[k]) = c
            /\ \A j \in 1 .. (k - 1) : rank_count(ranks, ranks[j]) # c]

\* [r for r in ranks if r != excluded], in list order
RECURSIVE ranks_other_than(_, _)
ranks_other_than(ranks, excluded) ==
    IF ranks = <<>> THEN <<>>
    ELSE (IF Head(ranks) # excluded THEN <<Head(ranks)>> ELSE <<>>)
           \o ranks_other_than(Tail(ranks), excluded)

SetMax(S) == CHOOSE x \in S : \A y \in S : y <= x
SetMin(S) == CHOOSE x \in S : \A y \in S : x <= y

\* evaluate_hand, "Check for straight": the rank set the code takes for the
\* ace-low straight, and the regular test
ace_low_ranks == {0, 9, 10, 11, 12}
is_straight(rank_values) ==
    IF rank_values = ace_low_ranks THEN TRUE
    ELSE Cardinality(rank_values) = 5
           /\ SetMax(rank_values) - SetMin(rank_values) = 4
straight_high(rank_values) ==
    IF rank_values = ace_low_ranks THEN 12
    ELSE IF is_straight(rank_values) THEN SetMax(rank_values) ELSE 0

\* evaluate_hand on exactly five cards
evaluate_five(hand) ==
    LET ranks == [k \in 1 .. Len(hand) |-> rank_value(hand[k])]
        suits == {suit(hand[k]) : k \in 1 .. Len(hand)}
        is_flush == Cardinality(suits) = 1
        rank_values == {ranks[k] : k \in 1 .. Len(ranks)}
        counts == {rank_count(ranks, r) : r \in rank_values}
        pair_ranks == {r \in rank_values : rank_count(ranks, r) = 2}
    IN  IF is_flush /\ rank_values = {8, 9, 10, 11, 12}
        THEN <<9, <<>> >>
        ELSE IF is_flush /\ is_straight(rank_values)
        THEN <<8, <<straight_high(rank_values)>> >>
        ELSE IF 4 \in counts
        THEN <<7, <<first_with_count(ranks, 4),
                    ranks_other_than(ranks, first_with_count(ranks, 4))[1]>> >>
        ELSE IF 3 \in counts /\ 2 \in counts
        THEN <<6, <<first_with_count(ranks, 3), first_with_count(ranks, 2)>> >>
        ELSE IF is_flush
        THEN <<5, SortedDesc(ranks)>>
        ELSE IF is_straight(rank_values)
        THEN <<4, <<straight_high(rank_values)>> >>
        ELSE IF 3 \in counts
        THEN <<3, <<first_with_count(ranks, 3)>>
                    \o SortedDesc(ranks_other_than(ranks, first_with_count(ranks, 3)))>>
        ELSE IF Cardinality(pair_ranks) = 2
        THEN <<2, <<SetMax(pair_ranks), SetMin(pair_ranks),
                    first_with_count(ranks, 1)>> >>
        ELSE IF 2 \in counts
        THEN <<1, <<first_with_count(ranks, 2)>>
                    \o SortedDesc(ranks_other_than(ranks, first_with_count(ranks, 2)))>>
        ELSE <<0, SortedDesc(ranks)>>

\* itertools.combinations(list, k), in the order itertools yields them
RECURSIVE combinations(_, _)
combinations(list, k) ==
    IF k = 0 THEN << <<>> >>
    ELSE IF Len(list) < k THEN <<>>
    ELSE LET with_head == combinations(Tail(list), k - 1)
         IN  [j \in 1 .. Len(with_head) |-> <<Head(list)>> \o with_head[j]]
               \o combinations(Tail(list), k)

\* mutant: the key is the category alone
RECURSIVE max_by_category(_, _)
max_by_category(best, rest) ==
    IF rest = <<>> THEN best
    ELSE IF best[1] < Head(rest)[1] THEN max_by_category(Head(rest), Tail(rest))
    ELSE max_by_category(best, Tail(rest))

\* max(..., key=lambda x: (x[0], x[1])): the first of the largest
RECURSIVE max_by_key(_, _)
max_by_key(best, rest) ==
    IF rest = <<>> THEN best
    ELSE IF ScoreLess(best, Head(rest)) THEN max_by_key(Head(rest), Tail(rest))
    ELSE max_by_key(best, Tail(rest))

\* evaluate_hand
evaluate_hand(hand) ==
    IF Len(hand) < 5
    THEN <<0, SortedDesc([k \in 1 .. Len(hand) |-> rank_value(hand[k])])>>
    ELSE IF Len(hand) > 5
    THEN LET all_combinations == combinations(hand, 5)
             evaluated == [j \in 1 .. Len(all_combinations) |->
                             evaluate_five(all_combinations[j])]
         IN  max_by_key(evaluated[1], Tail(evaluated))
    ELSE evaluate_five(hand)

\* ----------------------------------------------------------------- SpecEval
\* the round engine at rest while a pure function is examined
RoundAtRest ==
    /\ players = <<>>
    /\ pot = 0
    /\ current_bet = 0
    /\ dealer_idx = 0
    /\ current_player_idx = 0
    /\ community_cards = <<>>
    /\ deck = 0
    /\ pc = "pure"
    /\ street = 0
    /\ player_idx = 0
    /\ last_raiser = None
    /\ action = NoAction
    /\ amount_to_call = 0
    /\ bet = 0
    /\ turns = 0
    /\ raises = 0
    /\ street_active = 0
    /\ street_pot = 0
    /\ reprompted = FALSE
    /\ acted = {}
    /\ raiser = None
    /\ winners = <<>>
    /\ scores = <<>>

\* the subsets of S with k elements
RECURSIVE kSubsets(_, _)
kSubsets(S, k) ==
    IF k = 0 THEN {{}}
    ELSE IF S = {} THEN {}
    ELSE LET x == CHOOSE x \in S : TRUE
         IN  {T \cup {x} : T \in kSubsets(S \ {x}, k - 1)}
               \cup kSubsets(S \ {x}, k)

\* a set of cards as a list, in deck order
RECURSIVE HandOf(_)
HandOf(S) ==
    IF S = {} THEN <<>>
    ELSE <<SetMin(S)>> \o HandOf(S \ {SetMin(S)})

\* The hands evaluate_hand is applied to:
\*  - the wheel ranks A,2,3,4,5 under every assignment of the four suits;
\*  - every five cards out of 2..6 and 10..A in two suits (straights at both
\*    ends, flushes, pairs, and hands that are almost straights);
\*  - every five cards out of 2, 5, A in all four suits (sets, full houses,
\*    quads);
\*  - every six and seven cards out of the spade royal flush with six more
\*    cards around it;
\*  - every pair of hole cards out of that last deck (fewer than 5 cards).
WheelRanks == {Ace, Two, Three, Four, Five}
WheelHands ==
    {{Card(r, f[r]) : r \in WheelRanks} : f \in [WheelRanks -> 0 .. 3]}
StraightDeck ==
    {Card(r, s) : r \in {Two, Three, Four, Five, Six, Ten, Jack, Queen, King, Ace},
                  s \in {0, 1}}
SetDeck == {Card(r, s) : r \in {Two, Five, Ace}, s \in 0 .. 3}
BoardDeck ==
    {Card(r, 0) : r \in {Ten, Jack, Queen, King, Ace}}
      \cup {Card(Two, 1), Card(Three, 1), Card(Ace, 1),
            Card(King, 2), Card(Two, 2), Card(7, 0)}
EvalHands ==
    WheelHands \cup kSubsets(StraightDeck, 5) \cup kSubsets(SetDeck, 5)
      \cup kSubsets(BoardDeck, 6) \cup kSubsets(BoardDeck, 7)
      \cup kSubsets(BoardDeck, 2)

NotEvaluated == <<>>

InitEval ==
    /\ RoundAtRest
    /\ cards \in {HandOf(h) : h \in EvalHands}
    /\ hand_score = NotEvaluated
    /\ mc = <<>>

\* a call of evaluate_hand
evaluate ==
    /\ pc = "pure"
    /\ cards # <<>>
    /\ hand_score = NotEvaluated
    /\ hand_score' = evaluate_hand(cards)
    /\ UNCHANGED <<cards, mc>>
    /\ UNCHANGED roundVars

NextEval == evaluate

SpecEval == InitEval /\ [][NextEval]_vars

\* ------------------------------------------- calculate_win_probability
\* The Monte Carlo estimator as a loop of its own: mc holds the arguments and
\* the locals of one call.  random.shuffle is any arrangement of the cards
\* that are not known; the unknown cards are drawn from MCDeck.
MaxIterations == 2

MCDeck == BoardDeck
MCInputs ==
    { [player_hand |-> <<Card(Ace, 1), Card(King, 2)>>,
       community_cards |-> <<Card(Ten, 0), Card(Jack, 0), Card(Queen, 0),
                             Card(King, 0), Card(Ace, 0)>>,
       num_players |-> 2],
      [player_hand |-> <<Card(Ace, 1), Card(King, 2)>>,
       community_cards |-> <<Card(Ten, 0), Card(Jack, 0), Card(Queen, 0),
                             Card(King, 0), Card(Ace, 0)>>,
       num_players |-> 3],
      [player_hand |-> <<Card(Two, 1), Card(King, 2)>>,
       community_cards |-> <<Card(Ten, 0), Card(Jack, 0), Card(Queen, 0),
                             Card(Three, 1)>>,
       num_players |-> 2] }

\* available_cards: the deck without the known cards
available_cards(player_hand, community) ==
    MCDeck \ (SeqToSet(player_hand) \cup SeqToSet(community))

\* the first k cards of the shuffled list, for every outcome of the shuffle
RECURSIVE shuffle(_, _)
shuffle(available, k) ==
    IF k = 0 THEN {<<>>}
    ELSE UNION {{<<c>> \o rest : rest \in shuffle(available \ {c}, k - 1)} :
                c \in available}

\* mutant: an opponent with an equal score beats the player
RECURSIVE player_wins_ties_lose(_, _, _)
player_wins_ties_lose(player_score, opponent_hands, simulated_community) ==
    IF opponent_hands = <<>> THEN TRUE
    ELSE IF ~ScoreLess(evaluate_hand(Head(opponent_hands) \o simulated_community),
                       player_score)
         THEN FALSE
    ELSE player_wins_ties_lose(player_score, Tail(opponent_hands), simulated_community)

\* the loop over opponent_hands: False at the first opp_score > player_score
RECURSIVE player_wins(_, _, _)
player_wins(player_score, opponent_hands, simulated_community) ==
    IF opponent_hands = <<>> THEN TRUE
    ELSE IF ScoreLess(player_score,
                      evaluate_hand(Head(opponent_hands) \o simulated_community))
         THEN FALSE
    ELSE player_wins(player_score, Tail(opponent_hands), simulated_community)

InitMC ==
    /\ RoundAtRest
    /\ cards = <<>>
    /\ hand_score = NotEvaluated
    /\ \E input \in MCInputs, iters \in 1 .. MaxIterations :
          mc = [pc |-> "loop",
                player_hand |-> input.player_hand,
                community_cards |-> input.community_cards,
                num_players |-> input.num_players,
                iterations |-> iters,
                wins |-> 0,
                trial |-> 0,
                player_score |-> NotEvaluated,
                opponent_scores |-> <<>>,
                result |-> None]

\* one pass of 'for _ in range(iterations)'; opponent_scores records the
\* score of every opponent hand of the pass
mc_iteration ==
    /\ pc = "pure"
    /\ mc # <<>>
    /\ mc.pc = "loop"
    /\ mc.trial < mc.iterations
    /\ LET remaining_community == 5 - Len(mc.community_cards)
           opponents == mc.num_players - 1
       IN  \E shuffled \in shuffle(available_cards(mc.player_hand, mc.community_cards),
                                   remaining_community + 2 * opponents) :
             LET simulated_community ==
                     mc.community_cards \o SubSeq(shuffled, 1, remaining_community)
                 opponent_hands ==
                     [j \in 1 .. opponents |->
                         SubSeq(shuffled, remaining_community + 2 * j - 1,
                                remaining_community + 2 * j)]
                 player_score == evaluate_hand(mc.player_hand \o simulated_community)
             IN  mc' = [mc EXCEPT
                          !.trial = @ + 1,
                          !.wins = IF player_wins(player_score, opponent_hands,
                                                  simulated_community)
                                   THEN @ + 1 ELSE @,
                          !.player_score = player_score,
                          !.opponent_scores =
                              [j \in 1 .. opponents |->
                                  evaluate_hand(opponent_hands[j] \o simulated_community)]]
    /\ UNCHANGED <<cards, hand_score>>
    /\ UNCHANGED roundVars

\* return (wins / iterations) * 100, kept as the fraction <<numerator, denominator>>
mc_return ==
    /\ pc = "pure"
    /\ mc # <<>>
    /\ mc.pc = "loop"
    /\ mc.trial = mc.iterations
    /\ mc' = [mc EXCEPT !.pc = "done", !.result = <<mc.wins * 100, mc.iterations>>]
    /\ UNCHANGED <<cards, hand_score>>
    /\ UNCHANGED roundVars

NextMC == mc_iteration \/ mc_return

SpecMC == InitMC /\ [][NextMC]_vars

\* ---------------------------------------------------- claims on evaluate_hand
Evaluated == hand_score # NotEvaluated
CardSet == {cards[k] : k \in 1 .. Len(cards)}
RankSet == {rank_value(c) : c \in CardSet}
SuitSet == {suit(c) : c \in CardSet}

\* the hand with its ace replaced by the six of the same suit
AceToSix == HandOf({IF rank_value(c) = Ace THEN Card(Six, suit(c)) ELSE c : c \in CardSet})

\* C11: A,2,3,4,5 in any suits is a straight (category 4, or 8 when the suits
\* are all equal) with tie-break [3], strictly below 2,3,4,5,6 of that category.
C11_WheelIsFiveHighStraight ==
    (Evaluated /\ Len(cards) = 5 /\ RankSet = WheelRanks) =>
        /\ hand_score[1] = IF Cardinality(SuitSet) = 1 THEN 8 ELSE 4
        /\ hand_score[2] = <<Five>>
        /\ evaluate_hand(AceToSix)[1] = hand_score[1]
        /\ ScoreLess(hand_score, evaluate_hand(AceToSix))

\* C12: for 6 or 7 cards the result is the score of one of the 5-card subsets
\* and no 5-card subset scores higher in the order on (category, tie-break);
\* cards that contain 10,J,Q,K,A of one suit give category 9.
C12_BestOfAllFiveCardSubsets ==
    (Evaluated /\ Len(cards) \in {6, 7}) =>
        LET subset_scores == {evaluate_five(HandOf(h)) : h \in kSubsets(CardSet, 5)}
        IN  /\ hand_score \in subset_scores
            /\ \A sc \in subset_scores :
                  \/ sc[1] < hand_score[1]
                  \/ sc[1] = hand_score[1] /\ ~ListLess(hand_score[2], sc[2])
            /\ (\E s \in 0 .. 3 :
                   {Card(r, s) : r \in {Ten, Jack, Queen, King, Ace}} \subseteq CardSet)
                 => hand_score[1] = 9

\* C12 witness: seven cards with the spade royal flush and 2h, 3h were evaluated.
C12_Witness ==
    /\ Evaluated
    /\ Len(cards) = 7
    /\ {Card(r, 0) : r \in {Ten, Jack, Queen, King, Ace}} \subseteq CardSet
    /\ {Card(Two, 1), Card(Three, 1)} \subseteq CardSet
    /\ hand_score = <<9, <<>> >>

\* C20: a five-card hand is put in a straight category (4, 8, 9) only if its
\* ranks are five distinct ranks in a row, or the wheel A,2,3,4,5.
C20_StraightOnlyForRuns ==
    (Evaluated /\ Len(cards) = 5 /\ hand_score[1] \in {4, 8, 9}) =>
        \/ /\ Cardinality(RankSet) = 5
           /\ \E low \in 0 .. 8 : RankSet = low .. (low + 4)
        \/ RankSet = WheelRanks

\* ------------------------------------- claims on calculate_win_probability
\* C13: a trial is counted as a win exactly when no opponent's score is
\* strictly greater than the player's score (a tie is a win), and the value
\* returned, wins / iterations * 100, lies in [0, 100].
C13_TiesCountAsWins ==
    [][ /\ (mc.pc = "loop" /\ mc'.pc = "loop") =>
            LET beaten == \E j \in 1 .. Len(mc'.opponent_scores) :
                             \/ mc'.opponent_scores[j][1] > mc'.player_score[1]
                             \/ /\ mc'.opponent_scores[j][1] = mc'.player_score[1]
                                /\ ListLess(mc'.player_score[2], mc'.opponent_scores[j][2])
            IN  mc'.wins = IF beaten THEN mc.wins ELSE mc.wins + 1
        /\ (mc.pc = "loop" /\ mc'.pc = "done") =>
            /\ mc.iterations >= 1
            /\ mc'.result[1] >= 0
            /\ mc'.result[1] <= 100 * mc'.result[2]
            /\ mc'.result[1] = 100 * mc.wins
            /\ mc'.result[2] = mc.iterations
      ]_vars

\* C13 witness: a call returned 100 after a last trial in which an opponent
\* had exactly the player's score.
C13_Witness ==
    /\ mc # <<>>
    /\ mc.pc = "done"
    /\ mc.wins = mc.iterations
    /\ mc.result = <<100 * mc.iterations, mc.iterations>>
    /\ \E j \in 1 .. Len(mc.opponent_scores) : mc.opponent_scores[j] = mc.player_score

\* --------------------------------------------------- claims on the streets
\* the loop is about to offer player_idx a turn / to end the street
TurnOffered == pc = "loop" /\ P(player_idx).is_active /\ last_raiser # player_idx
NormalCompletion == pc = "loop" /\ P(player_idx).is_active /\ last_raiser = player_idx
\* the step in which the offered turn is taken
TurnTaken == TurnOffered /\ (turns' = turns + 1 \/ pc' = "settle")

\* C14: a player who has acted in the street, whom nobody has raised since
\* and whose bet equals the table's bet is not offered another turn.
C14_NoSecondTurnWithoutRaise ==
    [][ TurnTaken =>
          ~(player_idx \in acted /\ P(player_idx).current_bet = current_bet)
      ]_vars

\* C15: after a raise the street ends normally only when the turn is back at
\* the raiser and every other player still in the hand has had a turn since
\* the raise; and when the turn is back at the raiser, the street ends there.
C15_RaiseReopensBetting ==
    [][ /\ (NormalCompletion /\ pc' # "loop" /\ raiser # None) =>
              /\ player_idx = raiser
              /\ ActiveSeats \ {raiser} \subseteq acted
        /\ (pc = "loop" /\ raiser # None /\ player_idx = raiser) =>
              /\ NormalCompletion
              /\ pc' \in {"deal", "settle"}
              /\ players' = players
              /\ pot' = pot
      ]_vars

\* C15 witness: pre-flop betting with a raise has ended normally with three
\* or more players left, and the flop is about to be dealt.
C15_Witness ==
    /\ pc = "deal"
    /\ street = 0
    /\ raises >= 1
    /\ Cardinality(ActiveSeats) >= 3

\* C16: a check is applied only when the acting player owes exactly 0, and
\* it leaves the pot, the table bet, every stack and bet, and the last-raiser
\* marker (as set for the turn, line 337) as they were.
C16_CheckOnlyAtZeroAndMovesNothing ==
    [][ (TurnTaken /\ pc' = "loop" /\ action'.verb = "check") =>
          /\ current_bet - P(player_idx).current_bet = 0
          /\ pot' = pot
          /\ current_bet' = current_bet
          /\ players' = players
          /\ last_raiser' = IF last_raiser = None THEN player_idx ELSE last_raiser
      ]_vars

\* C17: when the betting of the flop, the turn or the river begins, the table
\* bet and every player's bet are 0.
C17_BetsResetEachStreet ==
    (pc = "betting" /\ street >= 1) =>
        /\ current_bet = 0
        /\ \A i \in Seats : P(i).current_bet = 0

\* C18: is_active becomes false only by the player's own fold; from then on
\* the player takes no turn, pays nothing and is paid nothing, and stays
\* folded, until start_new_round makes every player active again.
C18_FoldIsTerminal ==
    [][ /\ pc # "start" =>
              \A i \in Seats :
                 /\ (P(i).is_active /\ ~players'[i + 1].is_active) =>
                       /\ TurnTaken
                       /\ player_idx = i
                       /\ action'.verb = "fold" \/ pc' = "settle"
                       /\ players'[i + 1].chips = P(i).chips
                 /\ ~P(i).is_active =>
                       /\ players'[i + 1] = P(i)
                       /\ ~(TurnTaken /\ player_idx = i)
        /\ (pc = "start" /\ pc' = "betting") =>
              \A k \in 1 .. Len(players') : players'[k].is_active
      ]_vars

\* C18 witness: a showdown on a full board was settled in which a player who
\* had folded took no part.
C18_Witness ==
    /\ pc = "done"
    /\ scores # <<>>
    /\ \E i \in Seats : ~P(i).is_active /\ i \notin DOMAIN scores
    /\ Len(community_cards) = 5

\* C19: the board holds 0 cards during pre-flop betting, 3 on the flop, 4 on
\* the turn and 5 on the river; within a round cards are only added, after
\* the ones that are there; and a pot is awarded by comparing the hands of two
\* or more players only with 5 cards on the board.
C19_BoardGrowsZeroThreeFourFive ==
    [][ /\ Len(community_cards') \in {0, 3, 4, 5}
        /\ pc \in {"betting", "loop"} =>
              Len(community_cards) = IF street = 0 THEN 0 ELSE street + 2
        /\ pc # "start" =>
              /\ <<Len(community_cards), Len(community_cards')>>
                    \in {<<0, 0>>, <<0, 3>>, <<3, 3>>, <<3, 4>>, <<4, 4>>,
                         <<4, 5>>, <<5, 5>>}
              /\ SubSeq(community_cards', 1, Len(community_cards)) = community_cards
        /\ (pc = "settle" /\ pc' = "done" /\ Cardinality(ActiveSeats) >= 2) =>
              Len(community_cards) = 5
      ]_vars

\* C19 witness: a pot was split between two or more hands compared on a board
\* of the five cards dealt after the hole cards.
C19_Witness ==
    /\ pc = "done"
    /\ Len(winners) >= 2
    /\ scores # <<>>
    /\ community_cards = [k \in 1 .. 5 |-> 2 * Len(players) + k]

\* ------------------------------------------------ claims on the AI policy
\* C21: the raise the AI policy returns after the flop with three of a kind
\* or better is max(big blind, pot div 2) capped at the player's stack, and
\* so is never more than the chips the player holds.
C21_StrongRaiseWithinStack ==
    [][ \A hand_rank \in {r \in HandRanks : r >= 3},
           random \in {d \in RandomDraws : d < 7} :
          (/\ TurnTaken
           /\ P(player_idx).is_ai
           /\ Len(community_cards) > 0
           /\ action' = ai_decision(P(player_idx),
                                    current_bet - P(player_idx).current_bet,
                                    hand_rank, FALSE, random)) =>
             /\ action'.verb = "raise"
             /\ action'.amount = Min(P(player_idx).chips, Max(big_blind, pot \div 2))
             /\ action'.amount <= P(player_idx).chips
      ]_vars

\* ------------------------------------------------------ claims on the chips
\* C22: from the blinds to the settlement the stacks and the pot add up to
\* the stacks the round began with, no stack is negative, and once the pot is
\* paid out the stacks alone add up to that sum.
C22_ChipsConserved ==
    /\ \A i \in Seats : P(i).chips >= 0
    /\ pc \in {"betting", "loop", "deal", "settle"} =>
          SumChips(players) + pot = TotalChips
    /\ pc \in {"start", "done", "gameover"} => SumChips(players) = TotalChips

\* C22 witness: a round with a blind capped by a short stack and a raise has
\* been settled at a showdown.
C22_Witness ==
    /\ pc = "done"
    /\ raises >= 1
    /\ scores # <<>>
    /\ \E i \in Seats :
          P(i).current_bet > 0 /\ P(i).current_bet < small_blind
    /\ SumChips(players) = TotalChips

====
